---- MODULE Spec2Model ----
(***************************************************************************)
(* Model of src/wellness_app.jsx: the lexicon sentiment scorer, the entry  *)
(* collection kept by WellnessApp with its save / delete / clear handlers, *)
(* the per-date trend aggregation of TrendCharts and the rule-based        *)
(* recommendation engine.                                                  *)
(*                                                                         *)
(* Representation.                                                         *)
(*  - A JavaScript string is a sequence of one-character strings.          *)
(*  - A JavaScript value is a record [t, n, s]: t the type tag, n the      *)
(*    numeric payload, s the string payload.                               *)
(*  - Sentiment numbers are exact rationals kept as integer multiples of   *)
(*    1/Unit, Unit = |POSITIVE_WORDS| * |NEGATIVE_WORDS|, so that every    *)
(*    quotient score/11, score/10 and the literal 0.5 is an integer.       *)
(*    Arithmetic is exact; IEEE-754 rounding of running sums is not        *)
(*    modelled.                                                            *)
(***************************************************************************)
EXTENDS Integers, Sequences, FiniteSets, TLC

VARIABLES entries, storage, mood, note, date, text, result

vars == <<entries, storage, mood, note, date, text, result>>

(* ------------------------------ bounds -------------------------------- *)
\* Number of fragments a scored text is assembled from.
MaxFrags == 3
\* Largest collection a check-in may be added to in the main specification.
MaxEntries == 3
\* Number of entries beyond the recommendation window in SpecWindow.
MaxBeyond == 1

(* --------------------------- JavaScript values ------------------------ *)
JSUndefined == [t |-> "undefined", n |-> 0, s |-> <<>>]
JSNull == [t |-> "null", n |-> 0, s |-> <<>>]
JSNaN == [t |-> "NaN", n |-> 0, s |-> <<>>]
JSObject == [t |-> "object", n |-> 0, s |-> <<>>]
JSArray == [t |-> "array", n |-> 0, s |-> <<>>]
JSNum(k) == [t |-> "number", n |-> k, s |-> <<>>]
JSStr(str) == [t |-> "string", n |-> 0, s |-> str]

\* ToBoolean: undefined, null, NaN, 0 and "" are falsy, everything else truthy.
Truthy(v) ==
  CASE v.t = "number" -> v.n # 0
    [] v.t = "string" -> v.s # <<>>
    [] v.t \in {"object", "array"} -> TRUE
    [] OTHER -> FALSE

Min(a, b) == IF a < b THEN a ELSE b
Max(a, b) == IF a > b THEN a ELSE b

(* ------------------------------ strings ------------------------------- *)
UpperCase == <<"A","B","C","D","E","F","G","H","I","J","K","L","M",
               "N","O","P","Q","R","S","T","U","V","W","X","Y","Z">>
LowerCase == <<"a","b","c","d","e","f","g","h","i","j","k","l","m",
               "n","o","p","q","r","s","t","u","v","w","x","y","z">>

\* String.prototype.toLowerCase, character by character.
LowerChar(c) ==
  IF \E i \in 1..Len(UpperCase) : UpperCase[i] = c
    THEN LowerCase[CHOOSE i \in 1..Len(UpperCase) : UpperCase[i] = c]
    ELSE c

toLowerCase(str) == [i \in 1..Len(str) |-> LowerChar(str[i])]

\* String.prototype.includes: w occurs in str as a contiguous substring.
includes(str, w) ==
  \E i \in 1..(Len(str) - Len(w) + 1) :
    \A j \in 1..Len(w) : str[i + j - 1] = w[j]

(* ------------------------------ lexicons ------------------------------ *)
POSITIVE_WORDS ==
  << <<"h","a","p","p","y">>,
     <<"j","o","y">>,
     <<"g","r","e","a","t">>,
     <<"g","o","o","d">>,
     <<"c","o","n","t","e","n","t">>,
     <<"e","x","c","i","t","e","d">>,
     <<"c","a","l","m">>,
     <<"r","e","l","a","x","e","d">>,
     <<"h","o","p","e">>,
     <<"l","o","v","e">>,
     <<"g","r","a","t","e","f","u","l">> >>

NEGATIVE_WORDS ==
  << <<"s","a","d">>,
     <<"d","e","p","r","e","s","s","e","d">>,
     <<"a","n","g","r","y">>,
     <<"a","n","x","i","o","u","s">>,
     <<"s","t","r","e","s","s","e","d">>,
     <<"u","p","s","e","t">>,
     <<"l","o","n","e","l","y">>,
     <<"w","o","r","r","i","e","d">>,
     <<"t","i","r","e","d">>,
     <<"h","o","p","e","l","e","s","s">> >>

\* One sentiment unit is 1/Unit.
Unit == Len(POSITIVE_WORDS) * Len(NEGATIVE_WORDS)

\* The literal 0.5 of the punctuation fallback, in units.
Half == Unit \div 2

\* The length under which the punctuation fallback applies.
FallbackLen == 50

(* --------------------------- scoreSentiment --------------------------- *)
Return(v) == [kind |-> "return", val |-> v]
Throw == [kind |-> "throw", val |-> 0]
NotCalled == [kind |-> "none", val |-> 0]

\* for (const w of words) if (normalized.includes(w)) score += step;
RECURSIVE ScanWords(_, _, _, _, _)
ScanWords(words, i, normalized, step, score) ==
  IF i > Len(words) THEN score
  ELSE ScanWords(words, i + 1, normalized, step,
                 IF includes(normalized, words[i]) THEN score + step ELSE score)

\* The score after both lexicon loops.
RawScore(normalized) ==
  ScanWords(NEGATIVE_WORDS, 1, normalized, -1,
            ScanWords(POSITIVE_WORDS, 1, normalized, 1, 0))

\* Variant of Fallback: a text of exactly the threshold length still counts.
FallbackInclusive(normalized) ==
  IF includes(normalized, <<"!">>) /\ Len(normalized) <= FallbackLen
    THEN Half ELSE 0

\* The punctuation fallback of a zero raw score.
Fallback(normalized) ==
  IF includes(normalized, <<"!">>) /\ Len(normalized) < FallbackLen
    THEN Half ELSE 0

\* Variant of MapScore: the raw count is returned, not mapped to -1..1.
MapScoreUnmapped(score, normalized) ==
  IF score # 0 THEN score * Unit ELSE Fallback(normalized)

\* Variant of MapScore: each side is divided by the other lexicon's length.
MapScoreSwapped(score, normalized) ==
  IF score > 0 THEN Min(Unit, (score * Unit) \div Len(NEGATIVE_WORDS))
  ELSE IF score < 0 THEN Max(-Unit, (score * Unit) \div Len(POSITIVE_WORDS))
  ELSE Fallback(normalized)

\* The mapping of the raw score to -1..1, in units.
MapScore(score, normalized) ==
  IF score > 0 THEN Min(Unit, (score * Unit) \div Len(POSITIVE_WORDS))
  ELSE IF score < 0 THEN Max(-Unit, (score * Unit) \div Len(NEGATIVE_WORDS))
  ELSE Fallback(normalized)

\* scoreSentiment(text): what the call does, a returned number (in units)
\* or a TypeError raised by text.toLowerCase on a truthy non-string.
scoreSentiment(v) ==
  IF ~Truthy(v) THEN Return(0)
  ELSE IF v.t # "string" THEN Throw
  ELSE LET normalized == toLowerCase(v.s)
       IN Return(MapScore(RawScore(normalized), normalized))

(* ------------------------------- dates -------------------------------- *)
\* UTF-16 code units of the characters of an ISO date.
CharCode(c) ==
  CASE c = "-" -> 45
    [] c = "0" -> 48 [] c = "1" -> 49 [] c = "2" -> 50 [] c = "3" -> 51
    [] c = "4" -> 52 [] c = "5" -> 53 [] c = "6" -> 54 [] c = "7" -> 55
    [] c = "8" -> 56 [] c = "9" -> 57

\* a < b on strings: the code units at the first position where the two
\* differ decide; with no such position the shorter string is the smaller.
StrLess(a, b) ==
  LET d == { k \in 1..Min(Len(a), Len(b)) : a[k] # b[k] }
  IN IF d = {} THEN Len(a) < Len(b)
     ELSE LET m == CHOOSE m \in d : \A k \in d : m <= k
          IN CharCode(a[m]) < CharCode(b[m])

Date1227 == <<"2","0","2","3","-","1","2","-","2","7">>
Date1228 == <<"2","0","2","3","-","1","2","-","2","8">>
Date1229 == <<"2","0","2","3","-","1","2","-","2","9">>
Date1230 == <<"2","0","2","3","-","1","2","-","3","0">>
Date1231 == <<"2","0","2","3","-","1","2","-","3","1">>
Date0101 == <<"2","0","2","4","-","0","1","-","0","1">>
Date0102 == <<"2","0","2","4","-","0","1","-","0","2">>
Date0110 == <<"2","0","2","4","-","0","1","-","1","0">>
Date0112 == <<"2","0","2","4","-","0","1","-","1","2">>
Date0115 == <<"2","0","2","4","-","0","1","-","1","5">>

\* todayISO(): the day the session runs on.
todayISO == Date0110

(* --------------------------- number helpers --------------------------- *)
\* Number(mood): the slider hands over its value as a decimal string.
RECURSIVE ParseDigits(_, _)
ParseDigits(str, acc) ==
  IF str = <<>> THEN acc
  ELSE ParseDigits(Tail(str), 10 * acc + (CharCode(Head(str)) - CharCode("0")))

Number(v) ==
  CASE v.t = "number" -> v
    [] v.t = "string" -> JSNum(ParseDigits(v.s, 0))
    [] OTHER -> JSNaN

\* a + b on numbers: undefined and NaN operands give NaN.
JSAdd(a, b) ==
  IF a.t = "number" /\ b.t = "number" THEN JSNum(a.n + b.n) ELSE JSNaN

\* a ?? d
Nullish(a, d) == IF a.t \in {"undefined", "null"} THEN d ELSE a

\* a || d
OrElse(a, d) == IF Truthy(a) THEN a ELSE d

\* The integer nearest to a / b (b > 0), a tie going away from zero, as
\* Number.prototype.toFixed rounds an exactly representable tie.
RoundDiv(a, b) ==
  IF a >= 0 THEN (2 * a + b) \div (2 * b)
  ELSE -((2 * (-a) + b) \div (2 * b))

(* ------------------------------- sorting ------------------------------ *)
\* Array.prototype.sort under a comparator that never answers 0: a is
\* strictly before b when the comparator says so in both directions.  The
\* order of elements the comparator does not separate is left to the
\* engine, so every arrangement of them is an outcome.
\* The two comparators of the program:
\*   (a, b) => (a.date < b.date ? 1 : -1)   newest first,
\*   (a, b) => (a.date > b.date ? 1 : -1)   oldest first.
NewestFirst == "newest first"
OldestFirst == "oldest first"

Compare(cmp, a, b) ==
  IF cmp = NewestFirst
    THEN (IF StrLess(a.date.s, b.date.s) THEN 1 ELSE -1)
    ELSE (IF StrLess(b.date.s, a.date.s) THEN 1 ELSE -1)

StrictlyBefore(cmp, a, b) == Compare(cmp, b, a) > 0 /\ Compare(cmp, a, b) < 0

SetMax(S) == CHOOSE m \in S : \A k \in S : k <= m
SetMin(S) == CHOOSE m \in S : \A k \in S : m <= k

\* The places in an arranged sequence where x may stand: after the last
\* element that is strictly before x and ahead of the first one x is
\* strictly before.
Places(sorted, x, cmp) ==
  SetMax({0} \cup { i \in 1..Len(sorted) : StrictlyBefore(cmp, sorted[i], x) })
    .. (SetMin({Len(sorted) + 1} \cup { i \in 1..Len(sorted) : StrictlyBefore(cmp, x, sorted[i]) }) - 1)

InsertAt(sorted, p, x) ==
  SubSeq(sorted, 1, p) \o <<x>> \o SubSeq(sorted, p + 1, Len(sorted))

\* The arrangements of the first k elements of seq.
RECURSIVE Arrange(_, _, _)
Arrange(seq, k, cmp) ==
  IF k = 0 THEN { <<>> }
  ELSE UNION { { InsertAt(sorted, p, seq[k]) : p \in Places(sorted, seq[k], cmp) } :
               sorted \in Arrange(seq, k - 1, cmp) }

\* (The array is bound once, so that it is evaluated a single time.)
SortOutcomes(seq, cmp) == UNION { Arrange(arr, Len(arr), cmp) : arr \in { seq } }

(* ----------------------------- persistence ---------------------------- *)
\* loadEntries: every stored record, its date replaced by today's when it
\* is missing; an absent or unparsable slot is the empty list.
loadEntries(raw) ==
  [i \in 1..Len(raw) |-> [raw[i] EXCEPT !.date = OrElse(raw[i].date, JSStr(todayISO))]]

(* ------------------------- recommendation engine ---------------------- *)
Rec(id, txt) == [id |-> id, text |-> txt]

RECURSIVE SumNum(_)
SumNum(nums) == IF nums = <<>> THEN 0 ELSE Head(nums) + SumNum(Tail(nums))

\* out.filter with the `seen` set: the first item of each text is kept.
RECURSIVE Dedupe(_, _)
Dedupe(out, seen) ==
  IF out = <<>> THEN <<>>
  ELSE IF Head(out).text \in seen THEN Dedupe(Tail(out), seen)
  ELSE <<Head(out)>> \o Dedupe(Tail(out), seen \cup {Head(out).text})

\* Variant of LowMood: an average of exactly 2.5 is not low.
LowMoodStrict(sum, len) == 2 * sum < 5 * len

\* avgMood <= 2.5 and avgMood <= 3.5, on the sum and the count.
LowMood(sum, len) == 2 * sum <= 5 * len
MidMood(sum, len) == 2 * sum <= 7 * len

\* avgSentiment < -0.1, the sum being in units.
NegativeSentiment(sum, len) == 10 * sum < -(Unit * len)

MoodTier(sum, len) ==
  IF LowMood(sum, len)
    THEN << Rec("r_ground", "Try a grounding exercise: name 5 things you can see, 4 you can touch, 3 you can hear."),
            Rec("r_talk", "Consider reaching out to a friend or family for emotional support.") >>
  ELSE IF MidMood(sum, len)
    THEN << Rec("r_breathe", "Try a 3-4-5 breathing cycle for 3 minutes."),
            Rec("r_walk2", "Short physical activity (walk/stretch) can improve mood.") >>
  ELSE << Rec("r_keep", "You're doing well - keep your current routines and celebrate small wins.") >>

SentimentOverlay(sum, len) ==
  IF NegativeSentiment(sum, len)
    THEN << Rec("r_journal", "Try journaling: write one honest paragraph about what's on your mind."),
            Rec("r_sleep", "Focus on sleep hygiene: limit screens 1 hour before bed.") >>
  ELSE <<>>

\* recentEntries.map((e) => e.mood || 3)
MoodOf(e) == OrElse(e.mood, JSNum(3)).n

\* recentEntries.map((e) => e.sentiment ?? 0)
SentimentOf(e) == Nullish(e.sentiment, JSNum(0)).n

generateRecommendations(recentEntries) ==
  IF Len(recentEntries) = 0
    THEN << Rec("r_default", "Try a short 5-minute breathing exercise to start your day."),
            Rec("r_walk", "Go for a 10-minute walk outside - nature helps mood.") >>
  ELSE LET moods == [i \in 1..Len(recentEntries) |-> MoodOf(recentEntries[i])]
           sentiments == [i \in 1..Len(recentEntries) |-> SentimentOf(recentEntries[i])]
           len == Len(recentEntries)
       IN Dedupe(MoodTier(SumNum(moods), len) \o SentimentOverlay(SumNum(sentiments), len), {})

\* The length of the window Recommendations cuts from the collection.
WINDOW == 10

\* entries.slice(0, 10)
RecentWindow(list) == SubSeq(list, 1, Min(WINDOW, Len(list)))

\* What the Recommendations component renders for the collection.
Recommendations(list) == generateRecommendations(RecentWindow(list))

(* --------------------------- trend aggregation ------------------------ *)
\* The position of date d among the groups made so far, 0 when there is none.
GroupIndex(groups, d) ==
  IF \E k \in 1..Len(groups) : groups[k].date = d
    THEN CHOOSE k \in 1..Len(groups) : groups[k].date = d
    ELSE 0

\* Variant of AddToGroups: the count of a group is set when the group is
\* made and not raised by the entries that join it.
AddToGroupsCountOnce(groups, e) ==
  LET k == GroupIndex(groups, e.date)
      old == IF k = 0
               THEN [date |-> e.date, moodSum |-> JSNum(0), count |-> 1, sentimentSum |-> JSNum(0)]
               ELSE groups[k]
      new == [old EXCEPT !.moodSum = JSAdd(old.moodSum, e.mood),
                         !.sentimentSum = JSAdd(old.sentimentSum, Nullish(e.sentiment, JSNum(0)))]
  IN IF k = 0 THEN Append(groups, new) ELSE [groups EXCEPT ![k] = new]

\* One step of entries.forEach: the group of e.date is created when it is
\* not there and takes e's mood, sentiment and one count.  Groups are kept
\* in creation order, the order Object.values lists date keys in.
AddToGroups(groups, e) ==
  LET k == GroupIndex(groups, e.date)
      old == IF k = 0
               THEN [date |-> e.date, moodSum |-> JSNum(0), count |-> 0, sentimentSum |-> JSNum(0)]
               ELSE groups[k]
      new == [old EXCEPT !.moodSum = JSAdd(old.moodSum, e.mood),
                         !.sentimentSum = JSAdd(old.sentimentSum, Nullish(e.sentiment, JSNum(0))),
                         !.count = old.count + 1]
  IN IF k = 0 THEN Append(groups, new) ELSE [groups EXCEPT ![k] = new]

RECURSIVE GroupEntries(_, _)
GroupEntries(list, groups) ==
  IF list = <<>> THEN groups
  ELSE GroupEntries(Tail(list), AddToGroups(groups, Head(list)))

\* +(sum / count).toFixed(2) in hundredths; scale is the size of one unit
\* of the sum (1 for moods, Unit for sentiments).  NaN stays NaN.
Mean2(sum, count, scale) ==
  IF sum.t = "number" THEN JSNum(RoundDiv(100 * sum.n, scale * count)) ELSE JSNaN

TrendPoint(g) ==
  [date |-> g.date, mood |-> Mean2(g.moodSum, g.count, 1),
   sentiment |-> Mean2(g.sentimentSum, g.count, Unit)]

\* The points before the final sort.
TrendPoints(list) ==
  LET groups == GroupEntries(list, <<>>)
  IN [k \in 1..Len(groups) |-> TrendPoint(groups[k])]

\* Variant of TrendCharts: the points are left in the order the groups
\* were made.
TrendChartsUnsorted(list) == TrendPoints(list)

\* The `data` series of TrendCharts.  The dates of the points are distinct,
\* so the comparator separates every pair and the sort has one outcome.
TrendCharts(list) ==
  LET points == TrendPoints(list)
  IN CHOOSE s \in SortOutcomes(points, OldestFirst) : TRUE

(* ------------------------------- inputs ------------------------------- *)
\* Pieces a scored text is assembled from: lexicon terms in either case, a
\* negative term that contains a positive one, the exclamation mark, and
\* two fillers of 24 and 25 characters that hold no lexicon term.
Fragments ==
  { <<"h","a","p","p","y">>,
    <<"G","r","a","t","e","f","u","l">>,
    <<"h","o","p","e","l","e","s","s">>,
    <<"S","A","D">>,
    <<" ","t","i","r","e","d">>,
    <<"!">>,
    <<"n","o","t","h","i","n","g"," ","m","u","c","h"," ","t","o"," ","s","a","y"," ","n","o","w"," ">>,
    <<"a"," ","l","o","n","g"," ","w","e","e","k"," ","a","t"," ","t","h","e"," ","o","f","f","i","c","e">> }

\* The concatenation of a sequence of strings.
RECURSIVE Concat(_)
Concat(parts) == IF parts = <<>> THEN <<>> ELSE Head(parts) \o Concat(Tail(parts))

Texts == { Concat(parts) : parts \in UNION { [1..k -> Fragments] : k \in 0..MaxFrags } }

\* Arguments scoreSentiment is called with: texts, and absent or non-text values.
ScoreInputs ==
  { JSStr(str) : str \in Texts }
    \cup { JSUndefined, JSNull, JSNaN, JSNum(0), JSNum(5), JSObject, JSArray }

\* Values the mood slider hands to setMood.
MoodChoices == { <<"4">> }

\* Values typed into the notes field.
NoteChoices == { <<"S","a","d",","," ","t","i","r","e","d","!">> }

\* Values picked in the date field.
DateChoices == { Date0101 }

\* Values picked in the date field with the long history; the empty string
\* is a cleared field.
WindowDateChoices == { Date0101, <<>> }

\* Identifiers uid() draws.  The draw is random, so a repeat is possible;
\* the saved check-ins of a run carry identifiers from this set.
UidChoices == { "u1" }

\* A stored record.  createdAt is written once and never read again; it is
\* left out of the records.
Stored(id, d, m, sent) ==
  [id |-> id, date |-> d, mood |-> m, note |-> JSStr(<<>>), sentiment |-> sent]

\* Contents of the storage slot a session may start from.
StoredLists ==
  { <<>>,
    << Stored("s1", JSStr(Date0101), JSNum(3), JSNum(0)),
       Stored("s2", JSStr(Date0101), JSNum(5), JSNum(-Half)),
       Stored("s3", JSStr(Date0102), JSNum(1), JSNum(Unit \div Len(POSITIVE_WORDS))) >>,
    << Stored("s1", JSUndefined, JSUndefined, JSUndefined),
       Stored("s2", JSStr(Date0102), JSNum(4), JSUndefined) >>,
    << Stored("s1", JSStr(Date0101), JSNum(7), JSNum(-Half)),
       Stored("s2", JSStr(Date0101), JSNum(0), JSNum(0)) >>,
    << Stored("s1", JSStr(Date0101), JSNum(2), JSNum(-(Unit \div Len(NEGATIVE_WORDS)))),
       Stored("s2", JSStr(Date0102), JSNum(-2), JSNum(-(Unit \div Len(NEGATIVE_WORDS)))) >> }

\* A long history: ten stored check-ins, out of order, dated before, on and
\* after the day of the session, two of them sharing a date, and each
\* identifier carried by two of them.
LongList ==
  << Stored("s0", JSStr(Date1229), JSNum(3), JSNum(0)),
     Stored("s1", JSStr(Date0115), JSNum(4), JSNum(0)),
     Stored("s2", JSStr(Date1227), JSNum(2), JSNum(0)),
     Stored("s3", JSStr(Date1231), JSNum(5), JSNum(0)),
     Stored("s4", JSStr(Date0101), JSNum(1), JSNum(0)),
     Stored("s0", JSStr(Date1228), JSNum(3), JSNum(0)),
     Stored("s1", JSStr(Date0110), JSNum(3), JSNum(0)),
     Stored("s2", JSStr(Date0112), JSNum(4), JSNum(0)),
     Stored("s3", JSStr(Date1227), JSNum(2), JSNum(0)),
     Stored("s4", JSStr(Date1230), JSNum(3), JSNum(0)) >>

(* ------------------------------ handlers ------------------------------ *)
\* Number of check-ins RecentEntries lists, each with its Delete button.
RECENT == 6

\* Variant of handleSave: the new entry is put in front, nothing is sorted.
handleSaveUnsorted(prev, entry) == { <<entry>> \o prev }

\* handleSave's updater: [entry, ...prev].sort(newest first).
handleSave(prev, entry) == SortOutcomes(<<entry>> \o prev, NewestFirst)

\* handleDelete's updater: prev.filter((p) => p.id !== id).
handleDelete(prev, id) == SelectSeq(prev, LAMBDA p : p.id # id)

\* The state a session starts in: the stored list loaded and sorted, the
\* mount effect having written it back, the form at its defaults.
Mounted(raw) ==
  /\ entries \in SortOutcomes(loadEntries(raw), NewestFirst)
  /\ storage = entries
  /\ mood = JSNum(3)
  /\ note = <<>>
  /\ date = todayISO

Init ==
  /\ \E raw \in StoredLists : Mounted(raw)
  /\ text = JSUndefined
  /\ result = NotCalled

setMood(v) ==
  /\ mood' = JSStr(v)
  /\ UNCHANGED <<entries, storage, note, date, text, result>>

setNote(v) ==
  /\ note' = v
  /\ UNCHANGED <<entries, storage, mood, date, text, result>>

setDate(v) ==
  /\ date' = v
  /\ UNCHANGED <<entries, storage, mood, note, text, result>>

\* MoodCheckIn's handleSubmit with WellnessApp's handleSave and the effect
\* that saves the collection; cap bounds the collection in the model.
handleSubmit(ids, cap) ==
  /\ Len(entries) < cap
  /\ \E id \in ids, sentiment \in { scoreSentiment(JSStr(note)).val } :
       LET entry == [id |-> id,
                     date |-> JSStr(date),
                     mood |-> Number(mood),
                     note |-> JSStr(note),
                     sentiment |-> JSNum(sentiment)]
       IN entries' \in handleSave(entries, entry)
  /\ storage' = entries'
  /\ mood' = JSNum(3)
  /\ note' = <<>>
  /\ date' = todayISO
  /\ UNCHANGED <<text, result>>

\* A Delete button of RecentEntries, which lists entries.slice(0, 6).
DeleteRecent ==
  /\ \E k \in 1..Min(RECENT, Len(entries)) :
       entries' = handleDelete(entries, entries[k].id)
  /\ storage' = entries'
  /\ UNCHANGED <<mood, note, date, text, result>>

\* clearAll: nothing happens unless the confirm dialog is accepted.
clearAll ==
  /\ \E confirmed \in BOOLEAN :
       entries' = IF confirmed THEN <<>> ELSE entries
  /\ storage' = entries'
  /\ UNCHANGED <<mood, note, date, text, result>>

Next ==
  \/ \E v \in MoodChoices : setMood(v)
  \/ \E v \in NoteChoices : setNote(v)
  \/ \E v \in DateChoices : setDate(v)
  \/ handleSubmit(UidChoices, MaxEntries)
  \/ DeleteRecent
  \/ clearAll

Spec == Init /\ [][Next]_vars

(* ---------------- the scorer called on arbitrary arguments ------------- *)
InitScore ==
  /\ Mounted(<<>>)
  /\ text \in ScoreInputs
  /\ result = NotCalled

CallScore ==
  /\ result = NotCalled
  /\ result' = scoreSentiment(text)
  /\ UNCHANGED <<entries, storage, mood, note, date, text>>

NextScore == CallScore

SpecScore == InitScore /\ [][NextScore]_vars

(* ------------------- a collection longer than the window --------------- *)
InitWindow ==
  /\ Mounted(LongList)
  /\ text = JSUndefined
  /\ result = NotCalled

NextWindow ==
  \/ \E v \in WindowDateChoices : setDate(v)
  \/ handleSubmit(UidChoices, WINDOW + MaxBeyond)
  \/ DeleteRecent
  \/ clearAll

SpecWindow == InitWindow /\ [][NextWindow]_vars

(* ======================================================================== *)
(*                                 Claims                                   *)
(* ======================================================================== *)
\* The lowercased text of the call, and the lexicon terms present in it.
Normalized == toLowerCase(text.s)
posHits == Cardinality({ i \in 1..Len(POSITIVE_WORDS) : includes(Normalized, POSITIVE_WORDS[i]) })
negHits == Cardinality({ i \in 1..Len(NEGATIVE_WORDS) : includes(Normalized, NEGATIVE_WORDS[i]) })
Pn == Len(POSITIVE_WORDS)
Nn == Len(NEGATIVE_WORDS)

\* scoreSentiment has been called on a text and has returned.
ScoredText == result.kind = "return" /\ text.t = "string"

\* C1: whatever text scoreSentiment is given, the value it returns lies in
\* the closed interval [-1, 1].
C1_ScoreInRange ==
  ScoredText => (-Unit <= result.val /\ result.val <= Unit)

\* A text with several positive terms and an exclamation mark has been scored.
C1_Witness ==
  ScoredText /\ posHits >= 2 /\ negHits = 0 /\ includes(text.s, <<"!">>)

\* C2 as stated: a positive raw score gives min(1, posHits / Pn) and a
\* negative one gives max(-1, negHits / Nn), each side normalized by its own
\* hit count and not by the signed difference.
C2_HitCountNormalization ==
  ScoredText =>
    /\ posHits - negHits > 0 => result.val * Pn = Min(Pn, posHits) * Unit
    /\ posHits - negHits < 0 => result.val * Nn = Max(-Nn, negHits) * Unit

\* C2 amended: the signed difference posHits - negHits is what is
\* normalized; a positive difference gives min(1, (posHits - negHits) / Pn), a
\* negative one gives max(-1, (posHits - negHits) / Nn).
C2_DifferenceNormalization ==
  ScoredText =>
    /\ posHits - negHits > 0 => result.val * Pn = Min(Pn, posHits - negHits) * Unit
    /\ posHits - negHits < 0 => result.val * Nn = Max(-Nn, posHits - negHits) * Unit

\* A text with terms of both polarities and a nonzero raw score has been scored.
C2_Witness ==
  ScoredText /\ posHits > 0 /\ negHits > 0 /\ posHits # negHits

\* C3: scoreSentiment never fails; an absent or non-text argument is scored
\* 0 like the empty text.
C3_NeverFails ==
  (result.kind # "none" /\ (text.t # "string" \/ text.s = <<>>)) => result = Return(0)

\* C4: with a raw score of exactly 0 the result is 0.5 if and only if the
\* text contains "!" and is under 50 characters long, and 0 otherwise.
C4_ZeroScoreFallback ==
  (ScoredText /\ posHits = negHits) =>
    result.val = IF (\E i \in 1..Len(text.s) : text.s[i] = "!") /\ Len(text.s) < FallbackLen
                   THEN Half ELSE 0

\* A text whose only terms are a negative one and the positive one inside
\* it, with an exclamation mark, has been scored 0.5.
C4_Witness ==
  ScoredText /\ posHits = negHits /\ posHits > 0 /\ result.val = Half

\* The dates of a list of records, as a set.
DatesOf(list) == { list[i].date : i \in 1..Len(list) }

\* C5: the trend series holds exactly one point per distinct date of the
\* entries, in strictly ascending order of date string; no entries, no points.
C5_OnePointPerDate ==
  LET data == TrendCharts(entries)
  IN /\ DatesOf(data) = DatesOf(entries)
     /\ Len(data) = Cardinality(DatesOf(entries))
     /\ \A k \in 1..(Len(data) - 1) : StrLess(data[k].date.s, data[k + 1].date.s)
     /\ entries = <<>> => data = <<>>

\* A saved check-in shares its date with another entry while a third entry
\* has another date.
C5_Witness ==
  /\ Len(entries) >= 3
  /\ Cardinality(DatesOf(entries)) = 2
  /\ \E i \in 1..Len(entries) : entries[i].id \in UidChoices
  /\ Len(TrendCharts(entries)) = 2

\* The sum a + b + ... of a sequence of JavaScript numbers.
RECURSIVE JSSum(_)
JSSum(vals) == IF vals = <<>> THEN JSNum(0) ELSE JSAdd(Head(vals), JSSum(Tail(vals)))

\* r is a / b rounded to an integer (b > 0), whichever way a tie goes.
Nearest(r, a, b) == 2 * (a - r * b) <= b /\ 2 * (r * b - a) <= b

\* hundredths is the mean of the numbers vals, of size 1/scale each, rounded
\* to 2 decimals; a sum that is not a number has a mean that is not one.
IsMean2(hundredths, vals, scale) ==
  LET sum == JSSum(vals)
  IN IF sum.t = "number"
       THEN hundredths.t = "number" /\ Nearest(hundredths.n, 100 * sum.n, scale * Len(vals))
       ELSE hundredths.t = "NaN"

\* C6: the point of a date carries the sum of the moods of exactly the
\* entries of that date divided by their count, and the sum of their
\* sentiments (a missing one counting 0) divided by the same count, each
\* rounded to 2 decimals.
C6_GroupMeans ==
  LET data == TrendCharts(entries)
  IN \A k \in 1..Len(data) :
       LET group == SelectSeq(entries, LAMBDA e : e.date = data[k].date)
       IN /\ IsMean2(data[k].mood, [i \in 1..Len(group) |-> group[i].mood], 1)
          /\ IsMean2(data[k].sentiment,
                     [i \in 1..Len(group) |->
                        IF group[i].sentiment.t = "undefined" THEN JSNum(0)
                        ELSE group[i].sentiment], Unit)

\* A saved check-in of mood 4 has joined a stored one of mood 3 on its date
\* (mean 3.50) while the one entry of the other date has mood 1 (mean 1.00).
C6_Witness ==
  LET data == TrendCharts(entries)
  IN /\ Len(entries) = 3
     /\ \E i \in 1..Len(entries) : entries[i].id \in UidChoices
     /\ Len(data) = 2
     /\ data[1].mood = JSNum(350)
     /\ data[2].mood = JSNum(100)

\* The identifiers of a list of recommendations, in order.
IdsOf(recs) == [k \in 1..Len(recs) |-> recs[k].id]

MoodInRange(m) == m.t = "number" /\ 1 <= m.n /\ m.n <= 5
WithDefaultedMoods(list) ==
  [i \in 1..Len(list) |->
     IF MoodInRange(list[i].mood) THEN list[i] ELSE [list[i] EXCEPT !.mood = JSNum(3)]]

\* C8: an entry whose mood is missing or outside [1, 5] counts as a mood of
\* 3, so the recommendations are those of the entries with such moods set to 3.
C8_OutOfRangeMoodCountsAsThree ==
  Recommendations(entries) = Recommendations(WithDefaultedMoods(entries))

\* C9: every trend point carries a numeric mean mood and a numeric mean
\* sentiment, also when an entry of its date has no mood or no sentiment.
C9_NumericMeans ==
  LET data == TrendCharts(entries)
  IN \A k \in 1..Len(data) : data[k].mood.t = "number" /\ data[k].sentiment.t = "number"

\* C10: the entries are ordered by date string, newest first, so the window
\* of the recommendations is at most 10 entries long and none of its
\* entries is older than an entry left out of it.
C10_NewestFirstWindow ==
  /\ \A i, j \in 1..Len(entries) :
       i < j => ~StrLess(entries[i].date.s, entries[j].date.s)
  /\ Len(RecentWindow(entries)) <= WINDOW
  /\ \A i \in 1..Len(RecentWindow(entries)) : \A j \in (WINDOW + 1)..Len(entries) :
       /\ RecentWindow(entries)[i] = entries[i]
       /\ ~StrLess(entries[i].date.s, entries[j].date.s)

\* More than 10 entries, a saved check-in in the window and a saved
\* check-in with a cleared date left out of it.
C10_Witness ==
  /\ Len(entries) > WINDOW
  /\ \E i \in 1..WINDOW : entries[i].id \in UidChoices
  /\ entries[Len(entries)].id \in UidChoices
  /\ entries[Len(entries)].date.s = <<>>

====
